---- MODULE Spec2Model ----
(***************************************************************************)
(* The camera control actor of crates/capture/src/lib.rs: the CameraActor  *)
(* state machine, its command handlers, the execution loop                 *)
(* camera_actor_loop and the two bounded channels, together with the       *)
(* fourcc mapping of crates/core/src/lib.rs.                               *)
(*                                                                         *)
(* The rscam driver is an external collaborator.  Each driver call that    *)
(* returns a Result is modelled by a boolean chosen by the environment    *)
(* (TRUE: Ok, FALSE: Err); the handle records whether it is armed.         *)
(***************************************************************************)
EXTENDS Integers, Sequences, FiniteSets, TLC

\* ---------------------------------------------------------------- bounds
\* Successful captures explored per device handle.
MaxFrames == 2
\* Commands the client keeps in flight in the command channel.
MaxPending == 1
\* Events the receiver leaves undrained in the event channel.
MaxBacklog == 1
\* Conversions applied in a row to one fourcc tag or PixelFormat.
MaxConversions == 2

\* ------------------------------------------------------ program constants
\* mpsc::channel(10) for commands, mpsc::channel(100) for events.
CommandCapacity == 10
EventCapacity == 100

Min(a, b) == IF a < b THEN a ELSE b

\* ------------------------------------------------------------ Option/Result
None == <<>>
Some(x) == <<x>>
IsSome(o) == o # <<>>
Unwrap(o) == o[1]

Ok(v) == [ok |-> TRUE, val |-> v]
Err(e) == [ok |-> FALSE, err |-> e]

\* ------------------------------------------------------------- core crate
PixelFormat == {"MJPG", "YUYV", "RGB3", "BGR3", "YU12", "YV12"}

\* The 4-byte ASCII tags, as byte sequences.
TagMJPG == <<77, 74, 80, 71>>
TagYUYV == <<89, 85, 89, 86>>
TagRGB3 == <<82, 71, 66, 51>>
TagBGR3 == <<66, 71, 82, 51>>
TagYU12 == <<89, 85, 49, 50>>
TagYV12 == <<89, 86, 49, 50>>
\* A tag outside the closed set ("H264").
TagH264 == <<72, 50, 54, 52>>

\* from_fourcc with the YV12 arm missing.
from_fourcc_no_yv12(fourcc) ==
    CASE fourcc = TagMJPG -> "MJPG"
      [] fourcc = TagYUYV -> "YUYV"
      [] fourcc = TagRGB3 -> "RGB3"
      [] fourcc = TagBGR3 -> "BGR3"
      [] fourcc = TagYU12 -> "YU12"
      [] OTHER -> "YUYV"

from_fourcc(fourcc) ==
    CASE fourcc = TagMJPG -> "MJPG"
      [] fourcc = TagYUYV -> "YUYV"
      [] fourcc = TagRGB3 -> "RGB3"
      [] fourcc = TagBGR3 -> "BGR3"
      [] fourcc = TagYU12 -> "YU12"
      [] fourcc = TagYV12 -> "YV12"
      [] OTHER -> "YUYV"

to_fourcc(f) ==
    CASE f = "MJPG" -> TagMJPG
      [] f = "YUYV" -> TagYUYV
      [] f = "RGB3" -> TagRGB3
      [] f = "BGR3" -> TagBGR3
      [] f = "YU12" -> TagYU12
      [] f = "YV12" -> TagYV12

Resolution(w, h) == [width |-> w, height |-> h]

FormatCapability(f, rs) == [format |-> f, resolutions |-> rs]

CameraCapabilities(fs) == [formats |-> fs]

\* ---------------------------------------------------------------- driver
\* What each device node reports.
Discretes(sizes) == [kind |-> "Discretes", sizes |-> sizes]
Stepwise == [kind |-> "Stepwise", sizes |-> <<>>]

\* camera.formats() as a sequence of Result<FormatInfo>, each with the
\* Result of camera.resolutions(&format.format).
DeviceFormats(path) ==
    IF path = "/dev/video0"
    THEN << Ok([format |-> TagMJPG,
                resolutions |-> Ok(Discretes(<< <<1280, 720>>, <<640, 480>> >>))]),
            Ok([format |-> TagYUYV,
                resolutions |-> Ok(Discretes(<< <<640, 480>> >>))]) >>
    ELSE << Ok([format |-> TagYUYV,
                resolutions |-> Ok(Discretes(<< <<1280, 720>>, <<640, 480>> >>))]),
            Err("EIO"),
            Ok([format |-> TagH264,
                resolutions |-> Ok(Discretes(<< <<1920, 1080>> >>))]),
            Ok([format |-> TagRGB3, resolutions |-> Ok(Stepwise)]),
            Ok([format |-> TagBGR3, resolutions |-> Err("EINVAL")]) >>

\* The device the capture binary spawns its actor on.
DefaultDevice == "/dev/video0"

\* The device an interface change may move to.
OtherDevices == {"/dev/video1"}

\* Camera::new(path): a fresh, unarmed handle.
Camera(path) == [path |-> path, armed |-> FALSE, config |-> None]

\* camera.start(&config) / camera.stop() when the driver accepts the call.
CameraStarted(camera, rscam_config) ==
    [camera EXCEPT !.armed = TRUE, !.config = Some(rscam_config)]

CameraStopped(camera) == [camera EXCEPT !.armed = FALSE, !.config = None]

\* One driver call as it is logged: the operation and whether it succeeded.
Call(op, ok) == [op |-> op, ok |-> ok]

\* ----------------------------------------------------------- error kinds
CapabilitiesNotDiscovered == [kind |-> "CapabilitiesNotDiscovered"]
UnsupportedFormat(f) == [kind |-> "UnsupportedFormat", format |-> f]
UnsupportedResolution(w, h, f) ==
    [kind |-> "UnsupportedResolution", width |-> w, height |-> h, format |-> f]
NotConfigured == [kind |-> "NotConfigured"]
AlreadyStreaming == [kind |-> "AlreadyStreaming"]
NotStreaming == [kind |-> "NotStreaming"]
IoError(msg) == [kind |-> "IoError", msg |-> msg]

\* ---------------------------------------------------------------- events
InterfaceChanged == [type |-> "InterfaceChanged"]
CapabilitiesDiscovered(caps) == [type |-> "CapabilitiesDiscovered", caps |-> caps]
ConfigurationRetrieved(c) == [type |-> "ConfigurationRetrieved", config |-> c]
Configured == [type |-> "Configured"]
FrameCaptured(frame) == [type |-> "FrameCaptured", frame |-> frame]
StreamingStarted == [type |-> "StreamingStarted"]
StreamingStopped == [type |-> "StreamingStopped"]
ShutdownComplete == [type |-> "ShutdownComplete"]
Error(e) == [type |-> "Error", err |-> e]

\* -------------------------------------------------------------- commands
SetInterface(path) == [type |-> "SetInterface", path |-> path]
DiscoverCapabilities == [type |-> "DiscoverCapabilities"]
GetConfiguration == [type |-> "GetConfiguration"]
SetConfiguration(w, h, fps, f) ==
    [type |-> "SetConfiguration", width |-> w, height |-> h, fps |-> fps, format |-> f]
StartStreaming == [type |-> "StartStreaming"]
StopStreaming == [type |-> "StopStreaming"]
Shutdown == [type |-> "Shutdown"]

\* The SetConfiguration requests the client may submit.
ConfigRequests ==
    { SetConfiguration(1280, 720, 30, "MJPG"),
      SetConfiguration(1280, 720, 15, "YUYV") }

Commands ==
    {SetInterface(p) : p \in OtherDevices}
      \cup {DiscoverCapabilities, GetConfiguration, StartStreaming, StopStreaming, Shutdown}
      \cup ConfigRequests

CaptureConfig(f, res, fps) == [format |-> f, resolution |-> res, fps |-> fps]

\* ------------------------------------------------------------ CameraActor
\* CameraActor::new after Camera::new(device_path) succeeded.
CameraActor(device_path) ==
    [camera |-> Camera(device_path),
     name |-> device_path,
     state |-> "Idle",
     capabilities |-> None,
     config |-> None,
     frame_sequence |-> 0]

\* What a handler hands back: the actor after the call, the Result it
\* returns and the driver calls it made, in order.
Outcome(actor, result, calls) == [actor |-> actor, result |-> result, calls |-> calls]

\* stop_streaming without the check of the state.
stop_streaming_unguarded(self, stop_ok) ==
    IF stop_ok
    THEN Outcome([self EXCEPT !.camera = CameraStopped(self.camera)],
                 Ok(<<>>), <<Call("stop", TRUE)>>)
    ELSE Outcome(self, Err(IoError("Failed to stop camera")), <<Call("stop", FALSE)>>)

stop_streaming(self, stop_ok) ==
    IF self.state = "Streaming"
    THEN IF stop_ok
         THEN Outcome([self EXCEPT !.camera = CameraStopped(self.camera)],
                      Ok(<<>>), <<Call("stop", TRUE)>>)
         ELSE Outcome(self, Err(IoError("Failed to stop camera")), <<Call("stop", FALSE)>>)
    ELSE Outcome(self, Err(NotStreaming), <<>>)

set_interface(self, device_path, stop_ok, open_ok) ==
    LET stopped == IF self.state = "Streaming"
                   THEN stop_streaming(self, stop_ok)
                   ELSE Outcome(self, Ok(<<>>), <<>>)
    IN  IF ~stopped.result.ok
        THEN stopped
        ELSE IF ~open_ok
             THEN Outcome(stopped.actor, Err(IoError("Failed to open")),
                          stopped.calls \o <<Call("open", FALSE)>>)
             ELSE Outcome([stopped.actor EXCEPT !.camera = Camera(device_path),
                                                !.name = device_path,
                                                !.state = "Idle",
                                                !.capabilities = None,
                                                !.frame_sequence = 0],
                          Ok(<<>>),
                          stopped.calls \o <<Call("open", TRUE)>>)

\* The Vec<Resolution> built from one ResolutionInfo.
Resolutions(resolution_info) ==
    IF resolution_info.kind = "Discretes"
    THEN [i \in 1..Len(resolution_info.sizes) |->
            Resolution(resolution_info.sizes[i][1], resolution_info.sizes[i][2])]
    ELSE <<>>

\* The formats Vec after the first n entries of camera.formats().
RECURSIVE DiscoveredFormats(_, _)
DiscoveredFormats(raw, n) ==
    IF n = 0
    THEN <<>>
    ELSE LET formats == DiscoveredFormats(raw, n - 1)
             format == raw[n]
         IN  IF format.ok /\ format.val.resolutions.ok
             THEN Append(formats,
                         FormatCapability(from_fourcc(format.val.format),
                                          Resolutions(format.val.resolutions.val)))
             ELSE formats

discover_capabilities(self) ==
    LET raw == DeviceFormats(self.camera.path)
    IN  Outcome([self EXCEPT !.capabilities =
                    Some(CameraCapabilities(DiscoveredFormats(raw, Len(raw))))],
                Ok(<<>>),
                <<Call("formats", TRUE)>>)

\* iter().find(..): the first element of seq whose index is in hits, as an Option.
First(seq, hits) ==
    IF hits = {}
    THEN None
    ELSE Some(seq[CHOOSE i \in hits : \A j \in hits : i <= j])

\* capabilities.formats.iter().find(|cap| cap.format == format)
FindFormat(formats, format) ==
    First(formats, {i \in 1..Len(formats) : formats[i].format = format})

\* pixel_format.resolutions.iter().find(|res| res.width == width && res.height == height)
FindResolution(resolutions, width, height) ==
    First(resolutions,
          {i \in 1..Len(resolutions) :
              resolutions[i].width = width /\ resolutions[i].height = height})

\* set_configuration storing the driver's default rate instead of the requested fps.
set_configuration_default_fps(self, width, height, fps, format) ==
    IF IsSome(self.capabilities)
    THEN LET capabilities == Unwrap(self.capabilities)
             pixel_format == FindFormat(capabilities.formats, format)
         IN  IF ~IsSome(pixel_format)
             THEN Outcome(self, Err(UnsupportedFormat(format)), <<>>)
             ELSE LET resolution == FindResolution(Unwrap(pixel_format).resolutions,
                                                   width, height)
                  IN  IF ~IsSome(resolution)
                      THEN Outcome(self,
                                   Err(UnsupportedResolution(width, height, format)),
                                   <<>>)
                      ELSE Outcome([self EXCEPT
                                      !.config = Some(CaptureConfig(format,
                                                                    Unwrap(resolution),
                                                                    30)),
                                      !.state = "Configured"],
                                   Ok(<<>>), <<>>)
    ELSE Outcome(self, Err(CapabilitiesNotDiscovered), <<>>)

\* set_configuration looking the resolution up under every format.
set_configuration_any_format(self, width, height, fps, format) ==
    IF IsSome(self.capabilities)
    THEN LET capabilities == Unwrap(self.capabilities)
             pixel_format == FindFormat(capabilities.formats, format)
         IN  IF ~IsSome(pixel_format)
             THEN Outcome(self, Err(UnsupportedFormat(format)), <<>>)
             ELSE LET listed ==
                          First(capabilities.formats,
                                {i \in 1..Len(capabilities.formats) :
                                    IsSome(FindResolution(capabilities.formats[i].resolutions,
                                                          width, height))})
                  IN  IF ~IsSome(listed)
                      THEN Outcome(self,
                                   Err(UnsupportedResolution(width, height, format)),
                                   <<>>)
                      ELSE Outcome([self EXCEPT
                                      !.config = Some(CaptureConfig(format,
                                                                    Resolution(width, height),
                                                                    fps)),
                                      !.state = "Configured"],
                                   Ok(<<>>), <<>>)
    ELSE Outcome(self, Err(CapabilitiesNotDiscovered), <<>>)

\* set_configuration promoting the state without storing the config.
set_configuration_state_only(self, width, height, fps, format) ==
    IF IsSome(self.capabilities)
    THEN LET capabilities == Unwrap(self.capabilities)
             pixel_format == FindFormat(capabilities.formats, format)
         IN  IF ~IsSome(pixel_format)
             THEN Outcome(self, Err(UnsupportedFormat(format)), <<>>)
             ELSE LET resolution == FindResolution(Unwrap(pixel_format).resolutions,
                                                   width, height)
                  IN  IF ~IsSome(resolution)
                      THEN Outcome(self,
                                   Err(UnsupportedResolution(width, height, format)),
                                   <<>>)
                      ELSE Outcome([self EXCEPT !.state = "Configured"],
                                   Ok(<<>>), <<>>)
    ELSE Outcome(self, Err(CapabilitiesNotDiscovered), <<>>)

set_configuration(self, width, height, fps, format) ==
    IF IsSome(self.capabilities)
    THEN LET capabilities == Unwrap(self.capabilities)
             pixel_format == FindFormat(capabilities.formats, format)
         IN  IF ~IsSome(pixel_format)
             THEN Outcome(self, Err(UnsupportedFormat(format)), <<>>)
             ELSE LET resolution == FindResolution(Unwrap(pixel_format).resolutions,
                                                   width, height)
                  IN  IF ~IsSome(resolution)
                      THEN Outcome(self,
                                   Err(UnsupportedResolution(width, height, format)),
                                   <<>>)
                      ELSE Outcome([self EXCEPT
                                      !.config = Some(CaptureConfig(format,
                                                                    Unwrap(resolution),
                                                                    fps)),
                                      !.state = "Configured"],
                                   Ok(<<>>), <<>>)
    ELSE Outcome(self, Err(CapabilitiesNotDiscovered), <<>>)

get_configuration(self) ==
    IF self.state = "Configured" \/ self.state = "Streaming"
    THEN Outcome(self, Ok(Unwrap(self.config)), <<>>)
    ELSE Outcome(self, Err(NotConfigured), <<>>)

\* The Frame built from what the driver hands back for one capture: the tag
\* and resolution the handle was armed with.
Frame(captured_frame, sequence) ==
    [format |-> from_fourcc(captured_frame.format),
     width |-> captured_frame.resolution[1],
     height |-> captured_frame.resolution[2],
     sequence |-> sequence]

capture_frame(self, capture_ok) ==
    IF self.state # "Streaming"
    THEN Outcome(self, Err(NotStreaming), <<>>)
    ELSE IF ~capture_ok
         THEN Outcome(self, Err(IoError("Failed to capture frame")),
                      <<Call("capture", FALSE)>>)
         ELSE LET next == [self EXCEPT !.frame_sequence = self.frame_sequence + 1]
              IN  Outcome(next,
                          Ok(Frame(Unwrap(self.camera.config), next.frame_sequence)),
                          <<Call("capture", TRUE)>>)

\* The rscam::Config built from a CaptureConfig.
RscamConfig(config) ==
    [interval |-> <<1, config.fps>>,
     resolution |-> <<config.resolution.width, config.resolution.height>>,
     format |-> to_fourcc(config.format)]

\* start_streaming restarting the frame counter with each stream.
start_streaming_recount(self, start_ok) ==
    IF self.state = "Configured"
    THEN LET config == Unwrap(self.config)
             rscam_config == RscamConfig(config)
         IN  IF start_ok
             THEN Outcome([self EXCEPT !.camera = CameraStarted(self.camera, rscam_config),
                                       !.state = "Streaming",
                                       !.frame_sequence = 0],
                          Ok(<<>>), <<Call("start", TRUE)>>)
             ELSE Outcome(self, Err(IoError("Failed to configure camera")),
                          <<Call("start", FALSE)>>)
    ELSE IF self.state = "Streaming"
         THEN Outcome(self, Err(AlreadyStreaming), <<>>)
         ELSE Outcome(self, Err(NotConfigured), <<>>)

\* start_streaming with the interval's terms swapped.
start_streaming_swapped(self, start_ok) ==
    IF self.state = "Configured"
    THEN LET config == Unwrap(self.config)
             rscam_config == [RscamConfig(config) EXCEPT !.interval = <<config.fps, 1>>]
         IN  IF start_ok
             THEN Outcome([self EXCEPT !.camera = CameraStarted(self.camera, rscam_config),
                                       !.state = "Streaming"],
                          Ok(<<>>), <<Call("start", TRUE)>>)
             ELSE Outcome(self, Err(IoError("Failed to configure camera")),
                          <<Call("start", FALSE)>>)
    ELSE IF self.state = "Streaming"
         THEN Outcome(self, Err(AlreadyStreaming), <<>>)
         ELSE Outcome(self, Err(NotConfigured), <<>>)

\* start_streaming promoting the state although the driver rejected the start.
start_streaming_promoting(self, start_ok) ==
    IF self.state = "Configured"
    THEN LET config == Unwrap(self.config)
             rscam_config == RscamConfig(config)
         IN  IF start_ok
             THEN Outcome([self EXCEPT !.camera = CameraStarted(self.camera, rscam_config),
                                       !.state = "Streaming"],
                          Ok(<<>>), <<Call("start", TRUE)>>)
             ELSE Outcome([self EXCEPT !.state = "Streaming"],
                          Err(IoError("Failed to configure camera")),
                          <<Call("start", FALSE)>>)
    ELSE IF self.state = "Streaming"
         THEN Outcome(self, Err(AlreadyStreaming), <<>>)
         ELSE Outcome(self, Err(NotConfigured), <<>>)

start_streaming(self, start_ok) ==
    IF self.state = "Configured"
    THEN LET config == Unwrap(self.config)
             rscam_config == RscamConfig(config)
         IN  IF start_ok
             THEN Outcome([self EXCEPT !.camera = CameraStarted(self.camera, rscam_config),
                                       !.state = "Streaming"],
                          Ok(<<>>), <<Call("start", TRUE)>>)
             ELSE Outcome(self, Err(IoError("Failed to configure camera")),
                          <<Call("start", FALSE)>>)
    ELSE IF self.state = "Streaming"
         THEN Outcome(self, Err(AlreadyStreaming), <<>>)
         ELSE Outcome(self, Err(NotConfigured), <<>>)

\* ------------------------------------------------------------------ state
VARIABLES
    actor,               \* the CameraActor owned by the actor thread
    command_channel,     \* mpsc::channel(10): commands sent and not yet received
    event_channel,       \* mpsc::channel(100): events sent and not yet received
    handle,              \* the CameraHandle: "held", "joining" (in shutdown) or "dropped"
    pc,                  \* where camera_actor_loop stands
    pending,             \* events the current iteration has still to send
    driver_calls,        \* the driver calls made by the latest step of the loop
    submitted,           \* the SetConfiguration just accepted, until another kind of command is received
    shutdown_completes,  \* ShutdownComplete events sent so far
    last_frame_seq,      \* sequence of the latest FrameCaptured sent for this device handle, 0 if none
    stream_event,        \* type of the latest StreamingStarted / StreamingStopped sent, "none" before the first
    conversion,          \* the chain of fourcc conversions applied so far (empty while the actor runs)
    limits               \* how many commands the client keeps in flight and how many events stay undrained

vars == <<actor, command_channel, event_channel, handle, pc, pending,
          driver_calls, submitted, shutdown_completes, last_frame_seq,
                   stream_event, conversion, limits>>

\* spawn_camera_actor(device_path) returned Ok: the device is open, both
\* channels are empty and the loop is about to poll.
Init ==
    /\ actor = CameraActor(DefaultDevice)
    /\ command_channel = <<>>
    /\ event_channel = <<>>
    /\ handle = "held"
    /\ pc = "poll"
    /\ pending = <<>>
    /\ driver_calls = <<>>
    /\ submitted = None
    /\ shutdown_completes = 0
    /\ last_frame_seq = 0
    /\ stream_event = "none"
    /\ conversion = <<>>
    /\ limits = [pending |-> MaxPending, backlog |-> MaxBacklog]

\* ----------------------------------------------------------------- client
\* blocking_send returns once the channel has room; the channels hold at
\* most their capacity, and the client and the receiver at most their limits.
CommandRoom ==
    Len(command_channel) < Min(CommandCapacity, limits.pending)

EventRoom ==
    Len(event_channel) < Min(EventCapacity, limits.backlog)

\* CameraHandle::send_command while the actor's receiver is alive.
send_command(command) ==
    /\ handle = "held"
    /\ pc # "done"
    /\ CommandRoom
    /\ command_channel' = Append(command_channel, command)
    /\ UNCHANGED <<actor, event_channel, handle, pc, pending, driver_calls,
                   submitted, shutdown_completes, last_frame_seq,
                   stream_event, conversion, limits>>

SendCommand == \E command \in Commands : send_command(command)

\* CameraHandle::shutdown: send Shutdown, then wait on the join handle.
shutdown ==
    /\ handle = "held"
    /\ pc # "done"
    /\ CommandRoom
    /\ command_channel' = Append(command_channel, Shutdown)
    /\ handle' = "joining"
    /\ UNCHANGED <<actor, event_channel, pc, pending, driver_calls,
                   submitted, shutdown_completes, last_frame_seq,
                   stream_event, conversion, limits>>

\* handle.join() returns once the actor thread has ended; the handle is consumed.
JoinReturns ==
    /\ handle = "joining"
    /\ pc = "done"
    /\ handle' = "dropped"
    /\ UNCHANGED <<actor, command_channel, event_channel, pc, pending,
                   driver_calls, submitted, shutdown_completes, last_frame_seq,
                   stream_event, conversion, limits>>

\* The client drops the CameraHandle, and with it the only command sender.
DropHandle ==
    /\ handle = "held"
    /\ handle' = "dropped"
    /\ UNCHANGED <<actor, command_channel, event_channel, pc, pending,
                   driver_calls, submitted, shutdown_completes, last_frame_seq,
                   stream_event, conversion, limits>>

\* The owner of the event receiver takes one event (events.blocking_recv()).
RecvEvent ==
    /\ event_channel # <<>>
    /\ event_channel' = Tail(event_channel)
    /\ UNCHANGED <<actor, command_channel, handle, pc, pending, driver_calls,
                   submitted, shutdown_completes, last_frame_seq,
                   stream_event, conversion, limits>>

\* ------------------------------------------------------- camera_actor_loop
\* A match arm that sends nothing for a handler's Err.
RespondOkOnly(result, success) ==
    IF result.ok THEN <<success>> ELSE <<>>

\* The event a match arm sends for a handler's Result.
Respond(result, success) ==
    <<IF result.ok THEN success ELSE Error(result.err)>>

\* A loop that goes back to the poll without its capture tail.
AfterCommandNoCapture(self) == "poll"

\* Where the loop goes once the command arm is through: to the capture if
\* streaming, else straight to the next poll.
AfterCommand(self) == IF self.state = "Streaming" THEN "capture" ELSE "poll"

\* A receive that leaves the command it returned in the channel.
HandledKeeping(command, out, events) ==
    /\ actor' = out.actor
    /\ driver_calls' = out.calls
    /\ pending' = events
    /\ submitted' = IF command.type = "SetConfiguration" /\ out.result.ok
                    THEN Some(command)
                    ELSE IF command.type = "GetConfiguration" THEN submitted ELSE None
    /\ command_channel' = command_channel
    /\ pc' = IF events = <<>> THEN AfterCommand(out.actor) ELSE "publish"
    /\ last_frame_seq' = IF command.type = "SetInterface" /\ out.result.ok
                         THEN 0
                         ELSE last_frame_seq
    /\ UNCHANGED <<event_channel, handle, shutdown_completes,
                   stream_event, conversion, limits>>

\* try_recv() returned Ok(command): the handler ran to `out` and the arm has
\* `events` to send.
Handled(command, out, events) ==
    /\ actor' = out.actor
    /\ driver_calls' = out.calls
    /\ pending' = events
    /\ submitted' = IF command.type = "SetConfiguration" /\ out.result.ok
                    THEN Some(command)
                    ELSE IF command.type = "GetConfiguration" THEN submitted ELSE None
    /\ command_channel' = Tail(command_channel)
    /\ pc' = IF events = <<>> THEN AfterCommand(out.actor) ELSE "publish"
    /\ last_frame_seq' = IF command.type = "SetInterface" /\ out.result.ok
                         THEN 0
                         ELSE last_frame_seq
    /\ UNCHANGED <<event_channel, handle, shutdown_completes,
                   stream_event, conversion, limits>>

Received(type) ==
    /\ pc = "poll"
    /\ command_channel # <<>>
    /\ Head(command_channel).type = type

RecvSetInterface ==
    /\ Received("SetInterface")
    /\ \E stop_ok \in BOOLEAN, open_ok \in BOOLEAN :
         LET command == Head(command_channel)
             out == set_interface(actor, command.path, stop_ok, open_ok)
         IN  Handled(command, out, Respond(out.result, InterfaceChanged))

RecvDiscoverCapabilities ==
    /\ Received("DiscoverCapabilities")
    /\ LET out == discover_capabilities(actor)
       IN  Handled(Head(command_channel), out,
                   IF IsSome(out.actor.capabilities)
                   THEN <<CapabilitiesDiscovered(Unwrap(out.actor.capabilities))>>
                   ELSE <<>>)

RecvGetConfiguration ==
    /\ Received("GetConfiguration")
    /\ LET out == get_configuration(actor)
       IN  Handled(Head(command_channel), out,
                   IF out.result.ok
                   THEN <<ConfigurationRetrieved(out.result.val)>>
                   ELSE <<Error(out.result.err)>>)

RecvSetConfiguration ==
    /\ Received("SetConfiguration")
    /\ LET command == Head(command_channel)
           out == set_configuration(actor, command.width, command.height,
                                    command.fps, command.format)
       IN  Handled(command, out, Respond(out.result, Configured))

RecvStartStreaming ==
    /\ Received("StartStreaming")
    /\ \E start_ok \in BOOLEAN :
         LET out == start_streaming(actor, start_ok)
         IN  Handled(Head(command_channel), out, Respond(out.result, StreamingStarted))

RecvStopStreaming ==
    /\ Received("StopStreaming")
    /\ \E stop_ok \in BOOLEAN :
         LET out == stop_streaming(actor, stop_ok)
         IN  Handled(Head(command_channel), out, Respond(out.result, StreamingStopped))

\* The Shutdown arm reporting a failed stop like the other arms do, and going on.
RecvShutdownStrict ==
    /\ Received("Shutdown")
    /\ \E stop_ok \in BOOLEAN :
         LET out == IF actor.state = "Streaming"
                    THEN stop_streaming(actor, stop_ok)
                    ELSE Outcome(actor, Ok(<<>>), <<>>)
         IN  IF out.result.ok
             THEN /\ actor' = out.actor
                  /\ driver_calls' = out.calls
                  /\ pending' = <<ShutdownComplete>>
                  /\ submitted' = None
                  /\ command_channel' = Tail(command_channel)
                  /\ pc' = "publish_exit"
                  /\ UNCHANGED <<event_channel, handle, shutdown_completes, last_frame_seq,
                   stream_event, conversion, limits>>
             ELSE Handled(Head(command_channel), out, Respond(out.result, ShutdownComplete))

\* The Shutdown arm: stop if streaming (Result ignored), send ShutdownComplete, break.
RecvShutdown ==
    /\ Received("Shutdown")
    /\ \E stop_ok \in BOOLEAN :
         LET out == IF actor.state = "Streaming"
                    THEN stop_streaming(actor, stop_ok)
                    ELSE Outcome(actor, Ok(<<>>), <<>>)
         IN  /\ actor' = out.actor
             /\ driver_calls' = out.calls
    /\ pending' = <<ShutdownComplete>>
    /\ submitted' = None
    /\ command_channel' = Tail(command_channel)
    /\ pc' = "publish_exit"
    /\ UNCHANGED <<event_channel, handle, shutdown_completes, last_frame_seq,
                   stream_event, conversion, limits>>

\* try_recv() returned Empty: nothing to do before the capture.
RecvEmpty ==
    /\ pc = "poll"
    /\ command_channel = <<>>
    /\ handle # "dropped"
    /\ pc' = AfterCommand(actor)
    /\ driver_calls' = <<>>
    /\ UNCHANGED <<actor, command_channel, event_channel, handle, pending,
                   submitted, shutdown_completes, last_frame_seq,
                   stream_event, conversion, limits>>

\* try_recv() returned Disconnected: stop if streaming (Result ignored), break.
RecvDisconnected ==
    /\ pc = "poll"
    /\ command_channel = <<>>
    /\ handle = "dropped"
    /\ \E stop_ok \in BOOLEAN :
         LET out == IF actor.state = "Streaming"
                    THEN stop_streaming(actor, stop_ok)
                    ELSE Outcome(actor, Ok(<<>>), <<>>)
         IN  /\ actor' = out.actor
             /\ driver_calls' = out.calls
    /\ pc' = "done"
    /\ UNCHANGED <<command_channel, event_channel, handle, pending,
                   submitted, shutdown_completes, last_frame_seq,
                   stream_event, conversion, limits>>

\* event_tx.blocking_send(event): waits for room, then queues the event.
Publish ==
    /\ pc \in {"publish", "publish_exit", "publish_frame"}
    /\ pending # <<>>
    /\ EventRoom
    /\ LET event == Head(pending)
       IN  /\ event_channel' = Append(event_channel, event)
           /\ shutdown_completes' = IF event.type = "ShutdownComplete"
                                    THEN shutdown_completes + 1
                                    ELSE shutdown_completes
           /\ last_frame_seq' = IF event.type = "FrameCaptured"
                                  THEN event.frame.sequence
                                  ELSE last_frame_seq
           /\ stream_event' = IF event.type \in {"StreamingStarted", "StreamingStopped"}
                               THEN event.type
                               ELSE stream_event
    /\ pending' = Tail(pending)
    /\ pc' = IF Tail(pending) # <<>> THEN pc
             ELSE IF pc = "publish" THEN AfterCommand(actor)
             ELSE IF pc = "publish_exit" THEN "done"
             ELSE "poll"
    \* leaving the loop drops the command receiver and what it still holds
    /\ command_channel' = IF pc' = "done" THEN <<>> ELSE command_channel
    /\ driver_calls' = <<>>
    /\ UNCHANGED <<actor, handle, submitted, conversion, limits>>

\* The tail of the loop body: one capture if streaming.  The driver can hand
\* back a frame only from an armed handle.
Capture ==
    /\ pc = "capture"
    /\ IF actor.state = "Streaming"
       THEN \E capture_ok \in BOOLEAN :
              /\ capture_ok => actor.camera.armed /\ actor.frame_sequence < MaxFrames
              /\ LET out == capture_frame(actor, capture_ok)
                 IN  /\ actor' = out.actor
                     /\ driver_calls' = out.calls
                     /\ pending' = IF out.result.ok
                                   THEN <<FrameCaptured(out.result.val)>>
                                   ELSE <<>>
                     /\ pc' = IF out.result.ok THEN "publish_frame" ELSE "poll"
       ELSE /\ pc' = "poll"
            /\ driver_calls' = <<>>
            /\ UNCHANGED <<actor, pending>>
    /\ UNCHANGED <<command_channel, event_channel, handle, submitted,
                   shutdown_completes, last_frame_seq,
                   stream_event, conversion, limits>>

ActorStep ==
    \/ RecvSetInterface
    \/ RecvDiscoverCapabilities
    \/ RecvGetConfiguration
    \/ RecvSetConfiguration
    \/ RecvStartStreaming
    \/ RecvStopStreaming
    \/ RecvShutdown
    \/ RecvEmpty
    \/ Publish
    \/ Capture

\* The client keeps its CameraHandle until shutdown consumes it.
Next ==
    \/ SendCommand
    \/ shutdown
    \/ JoinReturns
    \/ RecvEvent
    \/ RecvSetInterface
    \/ RecvDiscoverCapabilities
    \/ RecvGetConfiguration
    \/ RecvSetConfiguration
    \/ RecvStartStreaming
    \/ RecvStopStreaming
    \/ RecvShutdown
    \/ RecvEmpty
    \/ Publish
    \/ Capture

Spec == Init /\ [][Next]_vars

\* The actor thread keeps running and the owner of the event receiver keeps
\* taking events.
FairSpec == Spec /\ WF_vars(ActorStep) /\ WF_vars(RecvEvent)

\* The client may also drop its CameraHandle without calling shutdown.
NextDrop ==
    \/ Next
    \/ DropHandle
    \/ RecvDisconnected

SpecDrop == Init /\ [][NextDrop]_vars

\* ------------------------------------------------- the fourcc conversions
\* The bytes of the six tags and of "H264".
TagBytes == {49, 50, 51, 52, 54, 66, 71, 72, 74, 77, 80, 82, 85, 86, 89}

\* The [u8; 4] values from_fourcc is tried on.
Fourccs == {<<a, b, c, d>> : a \in TagBytes, b \in TagBytes, c \in TagBytes, d \in TagBytes}

\* One value of a conversion chain: a [u8; 4] tag or a PixelFormat.
Tag(fourcc) == [kind |-> "fourcc", fourcc |-> fourcc, format |-> "none"]

Format(f) == [kind |-> "format", fourcc |-> <<>>, format |-> f]

\* A tag or a PixelFormat to convert; the actor stands as spawned.
FourccInit ==
    /\ actor = CameraActor(DefaultDevice)
    /\ command_channel = <<>>
    /\ event_channel = <<>>
    /\ handle = "held"
    /\ pc = "poll"
    /\ pending = <<>>
    /\ driver_calls = <<>>
    /\ submitted = None
    /\ shutdown_completes = 0
    /\ last_frame_seq = 0
    /\ stream_event = "none"
    /\ limits = [pending |-> MaxPending, backlog |-> MaxBacklog]
    /\ conversion \in {<<Tag(fourcc)>> : fourcc \in Fourccs}
                        \cup {<<Format(f)>> : f \in PixelFormat}

\* PixelFormat::from_fourcc applied to the tag the chain ends with.
FromFourcc ==
    /\ Len(conversion) <= MaxConversions
    /\ conversion[Len(conversion)].kind = "fourcc"
    /\ conversion' = Append(conversion,
                            Format(from_fourcc(conversion[Len(conversion)].fourcc)))
    /\ UNCHANGED <<actor, command_channel, event_channel, handle, pc, pending,
                   driver_calls, submitted, shutdown_completes, last_frame_seq,
                   stream_event, limits>>

\* PixelFormat::to_fourcc applied to the format the chain ends with.
ToFourcc ==
    /\ Len(conversion) <= MaxConversions
    /\ conversion[Len(conversion)].kind = "format"
    /\ conversion' = Append(conversion,
                            Tag(to_fourcc(conversion[Len(conversion)].format)))
    /\ UNCHANGED <<actor, command_channel, event_channel, handle, pc, pending,
                   driver_calls, submitted, shutdown_completes, last_frame_seq,
                   stream_event, limits>>

FourccNext ==
    \/ FromFourcc
    \/ ToFourcc

FourccSpec == FourccInit /\ [][FourccNext]_vars

\* ------------------------------------- a client that leaves events undrained
\* The n-th command of a client that numbers its requests: the discovery
\* first, then SetConfiguration requests whose width is their number (and
\* which the device does not list).
NumberedCommand(n) ==
    IF n = 0 THEN DiscoverCapabilities ELSE SetConfiguration(n, 1, 30, "MJPG")

\* Commands sent so far, while no event has been taken from the event channel.
Sent == Len(event_channel) + Len(pending) + Len(command_channel)

\* The client sends its next numbered command.
SendNumbered == send_command(NumberedCommand(Sent))

\* spawn_camera_actor returned Ok; the client sends as long as
\* blocking_send lets it and nobody takes events.
ChannelInit ==
    /\ actor = CameraActor(DefaultDevice)
    /\ command_channel = <<>>
    /\ event_channel = <<>>
    /\ handle = "held"
    /\ pc = "poll"
    /\ pending = <<>>
    /\ driver_calls = <<>>
    /\ submitted = None
    /\ shutdown_completes = 0
    /\ last_frame_seq = 0
    /\ stream_event = "none"
    /\ conversion = <<>>
    /\ limits = [pending |-> CommandCapacity, backlog |-> EventCapacity]

\* The client's calls and the arms of the loop its commands reach.
ChannelNext ==
    \/ SendNumbered
    \/ shutdown
    \/ JoinReturns
    \/ RecvDiscoverCapabilities
    \/ RecvSetConfiguration
    \/ RecvShutdown
    \/ RecvEmpty
    \/ Publish

ChannelSpec == ChannelInit /\ [][ChannelNext]_vars

\* ---------------------------------------------------------------- claims
\* A step of the loop that receives a command of this type and runs its arm.
HandlerStep(type) == Received(type) /\ command_channel' = Tail(command_channel)

\* C1: when StopStreaming is processed while the state is Streaming and the
\* driver stop call succeeds, the state becomes Configured and exactly one
\* StreamingStopped event is emitted for the command.
C1_StopReturnsToConfigured ==
    [][(/\ HandlerStep("StopStreaming")
        /\ actor.state = "Streaming"
        /\ driver_calls' = <<Call("stop", TRUE)>>)
       => (/\ actor'.state = "Configured"
           /\ pending' = <<StreamingStopped>>)]_vars

\* C2: when StartStreaming is processed while the state is Configured and
\* the driver start call succeeds, the driver is armed with the stored
\* format, resolution and fps, the state becomes Streaming and exactly one
\* StreamingStarted event is emitted for the command.
C2_StartArmsStoredConfig ==
    [][(/\ HandlerStep("StartStreaming")
        /\ actor.state = "Configured"
        /\ driver_calls' = <<Call("start", TRUE)>>)
       => (/\ actor'.state = "Streaming"
           /\ pending' = <<StreamingStarted>>
           /\ actor'.config = actor.config
           /\ actor'.camera.armed
           /\ IsSome(actor'.camera.config)
           /\ LET stored == Unwrap(actor.config)
                  armed == Unwrap(actor'.camera.config)
              IN  /\ armed.interval = <<1, stored.fps>>
                  /\ armed.resolution = <<stored.resolution.width,
                                          stored.resolution.height>>
                  /\ armed.format \in {TagMJPG, TagYUYV, TagRGB3,
                                       TagBGR3, TagYU12, TagYV12}
                  /\ from_fourcc(armed.format) = stored.format)]_vars

C2_Witness ==
    /\ pc = "publish"
    /\ pending = <<StreamingStarted>>
    /\ driver_calls = <<Call("start", TRUE)>>
    /\ actor.state = "Streaming"
    /\ actor.camera.armed

\* C3: between loop steps, the device handle is armed at driver level if and
\* only if the actor's state is Streaming.
C3_ArmedIffStreaming ==
    pc = "poll" => (actor.camera.armed <=> actor.state = "Streaming")

\* C4: a stored CaptureConfig is present if and only if the state is
\* Configured or Streaming.
C4_ConfigIffConfigured ==
    IsSome(actor.config) <=> actor.state \in {"Configured", "Streaming"}

\* The CaptureConfig a SetConfiguration request asks for.
Requested(request) ==
    CaptureConfig(request.format,
                  Resolution(request.width, request.height),
                  request.fps)

\* f is the format of some entry of the capabilities.
FormatListed(caps, f) ==
    \E i \in 1..Len(caps.formats) : caps.formats[i].format = f

\* (w, h) is a resolution of some entry of the capabilities whose format is in fs.
ResolutionListed(caps, fs, w, h) ==
    \E i \in 1..Len(caps.formats) :
        /\ caps.formats[i].format \in fs
        /\ \E j \in 1..Len(caps.formats[i].resolutions) :
              caps.formats[i].resolutions[j] = Resolution(w, h)

\* C5: after SetConfiguration succeeds the state is Configured, a Configured
\* event is emitted, the capabilities list the format and the resolution
\* under it, and a following GetConfiguration emits ConfigurationRetrieved
\* carrying exactly the submitted format, width x height and fps.
C5_ConfigureThenGet ==
    [][/\ (/\ HandlerStep("SetConfiguration")
           /\ pending' # <<>>
           /\ Head(pending').type # "Error")
          => LET request == Head(command_channel)
             IN  /\ pending' = <<Configured>>
                 /\ actor'.state = "Configured"
                 /\ actor'.config = Some(Requested(request))
                 /\ IsSome(actor.capabilities)
                 /\ ResolutionListed(Unwrap(actor.capabilities), {request.format},
                                     request.width, request.height)
       /\ (HandlerStep("GetConfiguration") /\ IsSome(submitted))
          => pending' = <<ConfigurationRetrieved(Requested(Unwrap(submitted)))>>]_vars

C5_Witness ==
    /\ pc = "publish"
    /\ IsSome(submitted)
    /\ Unwrap(submitted).fps = 15
    /\ pending = <<ConfigurationRetrieved(Requested(Unwrap(submitted)))>>

\* C6: a SetConfiguration request is rejected with CapabilitiesNotDiscovered
\* when no capabilities are stored, else with UnsupportedFormat when the
\* format is not in the stored capabilities, else with UnsupportedResolution
\* when the resolution is not listed under that format, even if another
\* format lists it; every rejection is one of these three and leaves the
\* actor, its lifecycle state and stored config included, unchanged.
C6_ValidationErrors ==
    [][HandlerStep("SetConfiguration")
       => LET request == Head(command_channel)
              f == request.format
              w == request.width
              h == request.height
          IN  /\ ~IsSome(actor.capabilities)
                 => pending' = <<Error(CapabilitiesNotDiscovered)>>
              /\ (IsSome(actor.capabilities)
                  /\ ~FormatListed(Unwrap(actor.capabilities), f))
                 => pending' = <<Error(UnsupportedFormat(f))>>
              /\ (/\ IsSome(actor.capabilities)
                  /\ FormatListed(Unwrap(actor.capabilities), f)
                  /\ ~ResolutionListed(Unwrap(actor.capabilities), {f}, w, h))
                 => pending' = <<Error(UnsupportedResolution(w, h, f))>>
              /\ (pending' # <<>> /\ Head(pending').type = "Error")
                 => /\ Len(pending') = 1
                    /\ Head(pending').err \in {CapabilitiesNotDiscovered,
                                               UnsupportedFormat(f),
                                               UnsupportedResolution(w, h, f)}
                    /\ Head(pending').err = CapabilitiesNotDiscovered
                       => ~IsSome(actor.capabilities)
                    /\ Head(pending').err = UnsupportedFormat(f)
                       => ~FormatListed(Unwrap(actor.capabilities), f)
                    /\ actor' = actor
                    /\ driver_calls' = <<>>]_vars

\* A resolution listed under another format only is being rejected.
C6_Witness ==
    /\ pc = "publish"
    /\ pending = <<Error(UnsupportedResolution(1280, 720, "YUYV"))>>
    /\ IsSome(actor.capabilities)
    /\ FormatListed(Unwrap(actor.capabilities), "YUYV")
    /\ ResolutionListed(Unwrap(actor.capabilities), {"MJPG"}, 1280, 720)
    /\ ~ResolutionListed(Unwrap(actor.capabilities), {"YUYV"}, 1280, 720)

\* C7: StartStreaming while Streaming yields AlreadyStreaming, StopStreaming
\* while Idle or Configured yields NotStreaming, StartStreaming or
\* GetConfiguration while Idle yields NotConfigured; each is the only event
\* of its command, the actor (state, config, capabilities, frame counter)
\* is unchanged and the driver is not called.
C7_PreconditionErrors ==
    [][/\ (HandlerStep("StartStreaming") /\ actor.state = "Streaming")
          => /\ pending' = <<Error(AlreadyStreaming)>>
             /\ actor' = actor
             /\ driver_calls' = <<>>
       /\ (HandlerStep("StopStreaming") /\ actor.state \in {"Idle", "Configured"})
          => /\ pending' = <<Error(NotStreaming)>>
             /\ actor' = actor
             /\ driver_calls' = <<>>
       /\ (/\ HandlerStep("StartStreaming") \/ HandlerStep("GetConfiguration")
           /\ actor.state = "Idle")
          => /\ pending' = <<Error(NotConfigured)>>
             /\ actor' = actor
             /\ driver_calls' = <<>>]_vars

C7_Witness ==
    /\ pc = "publish"
    /\ pending = <<Error(AlreadyStreaming)>>
    /\ actor.state = "Streaming"
    /\ actor.camera.armed
    /\ actor.frame_sequence > 0

\* C8: between interface changes the sequence numbers of the FrameCaptured
\* events start at 1 and each is the previous one plus 1; no StopStreaming,
\* StartStreaming, SetConfiguration, DiscoverCapabilities, GetConfiguration,
\* failed SetInterface or failed capture changes the counter.
C8_SequenceContinues ==
    [][/\ (pc = "publish_frame" /\ pc' # pc)
          => /\ Head(pending).type = "FrameCaptured"
             /\ Head(pending).frame.sequence = last_frame_seq + 1
       /\ (pc = "capture" /\ pc' = "poll")
          => actor'.frame_sequence = actor.frame_sequence
       /\ \A type \in {"DiscoverCapabilities", "GetConfiguration", "SetConfiguration",
                       "StartStreaming", "StopStreaming"} :
             HandlerStep(type) => actor'.frame_sequence = actor.frame_sequence
       /\ (HandlerStep("SetInterface") /\ pending' # <<InterfaceChanged>>)
          => actor'.frame_sequence = actor.frame_sequence]_vars

\* A stream is started again after the first frame of the handle was sent,
\* and the counter still stands at 1.
C8_Witness ==
    /\ pc = "publish"
    /\ pending = <<StreamingStarted>>
    /\ last_frame_seq = 1
    /\ actor.frame_sequence = 1

\* C9: after SetInterface is processed, from any prior state, the state is
\* Idle, capabilities are absent and the frame counter is 0, and from
\* Streaming the driver was stopped before the handle was replaced (stated
\* for the steps in which no open of the new device failed).
C9_InterfaceChangeResets ==
    [][(/\ HandlerStep("SetInterface")
        /\ \A i \in 1..Len(driver_calls') : driver_calls'[i] # Call("open", FALSE))
       => /\ actor'.state = "Idle"
          /\ actor'.capabilities = None
          /\ actor'.frame_sequence = 0
          /\ actor.state = "Streaming"
             => driver_calls' = <<Call("stop", TRUE), Call("open", TRUE)>>]_vars

\* A Shutdown command is waiting in the command channel.
ShutdownSubmitted ==
    \E i \in 1..Len(command_channel) : command_channel[i].type = "Shutdown"

SuccessType(type) ==
    CASE type = "SetInterface" -> "InterfaceChanged"
      [] type = "DiscoverCapabilities" -> "CapabilitiesDiscovered"
      [] type = "GetConfiguration" -> "ConfigurationRetrieved"
      [] type = "SetConfiguration" -> "Configured"
      [] type = "StartStreaming" -> "StreamingStarted"
      [] type = "StopStreaming" -> "StreamingStopped"
      [] type = "Shutdown" -> "ShutdownComplete"

\* C11: every command the actor dequeues produces exactly one event in
\* response, the success event of its kind or an Error event, in every
\* actor state and for every driver outcome; Shutdown always produces
\* ShutdownComplete; and that one event is what the loop then puts on the
\* event channel before it goes on.
C11_OneEventPerCommand ==
    [][/\ \A type \in {"SetInterface", "DiscoverCapabilities", "GetConfiguration",
                       "SetConfiguration", "StartStreaming", "StopStreaming",
                       "Shutdown"} :
             HandlerStep(type)
             => /\ pending = <<>>
                /\ Len(pending') = 1
                /\ Head(pending').type \in {SuccessType(type), "Error"}
                /\ pc' \in {"publish", "publish_exit"}
       /\ HandlerStep("Shutdown") => pending' = <<ShutdownComplete>>
       /\ (pc \in {"publish", "publish_exit"} /\ pc' # pc)
          => /\ Len(pending) = 1
             /\ event_channel' = Append(event_channel, Head(pending))
             /\ pending' = <<>>
       /\ (pc \in {"publish", "publish_exit"} /\ pc' = pc)
          => pending' = pending]_vars

\* A command whose driver call failed is being answered with its one Error event.
C11_Witness ==
    /\ pc = "publish"
    /\ pending = <<Error(IoError("Failed to stop camera"))>>
    /\ driver_calls = <<Call("stop", FALSE)>>
    /\ actor.state = "Streaming"

\* C12: SetConfiguration processed while the state is Streaming is a caller
\* error: it is answered with an Error event, the state remains Streaming,
\* the armed handle is untouched and the stored config keeps the values the
\* driver was armed with.
C12_NoReconfigureWhileStreaming ==
    [][(HandlerStep("SetConfiguration") /\ actor.state = "Streaming")
       => /\ Len(pending') = 1
          /\ Head(pending').type = "Error"
          /\ actor'.state = "Streaming"
          /\ actor'.camera = actor.camera
          /\ actor'.config = actor.config]_vars

\* The six tags of the closed set, as written in the table.
ClosedTags == {TagMJPG, TagYUYV, TagRGB3, TagBGR3, TagYU12, TagYV12}

\* C13: from_fourcc(to_fourcc(f)) = f for each of the six PixelFormats,
\* to_fourcc(from_fourcc(t)) = t for each of the six tags t, and from_fourcc
\* of every other 4-byte tag is YUYV.
C13_FourccRoundTrip ==
    /\ \A i \in 1..Len(conversion) :
          (i + 2 <= Len(conversion)
           /\ (conversion[i].kind = "format"
               \/ (conversion[i].kind = "fourcc" /\ conversion[i].fourcc \in ClosedTags)))
          => conversion[i + 2] = conversion[i]
    /\ \A i \in 1..Len(conversion) :
          (/\ i + 1 <= Len(conversion)
           /\ conversion[i].kind = "fourcc"
           /\ conversion[i].fourcc \notin ClosedTags)
          => conversion[i + 1] = Format("YUYV")
    /\ \A i \in 1..Len(conversion) :
          conversion[i].kind = "format" => conversion[i].format \in PixelFormat

\* An unrecognized tag was decoded to the default and encoded again.
C13_Witness ==
    conversion = <<Tag(TagH264), Format("YUYV"), Tag(TagYUYV)>>

\* The tail of the loop body made a driver capture call in this step.
CaptureAttempt ==
    /\ pc = "capture"
    /\ driver_calls' # <<>>
    /\ driver_calls'[1].op = "capture"

\* C14: when a capture call fails while the state is Streaming, the actor
\* emits an Error event for the failure and no FrameCaptured, leaves the
\* frame counter alone, stays in Streaming and goes on to the next iteration.
C14_CaptureFailureReported ==
    [][(CaptureAttempt /\ driver_calls' = <<Call("capture", FALSE)>>)
       => /\ Len(pending') = 1
          /\ Head(pending').type = "Error"
          /\ actor'.frame_sequence = actor.frame_sequence
          /\ actor'.state = "Streaming"]_vars

\* C15: every driver capture call, and every FrameCaptured event, comes
\* after a StreamingStarted event with no StreamingStopped event emitted
\* since.
C15_NoCaptureAfterStopped ==
    [][/\ CaptureAttempt => stream_event = "StreamingStarted"
       /\ (pc = "publish_frame" /\ pc' # pc) => stream_event = "StreamingStarted"]_vars

\* C16: if the driver rejects the start call while StartStreaming is
\* processed in state Configured, one Error event carrying the driver error
\* is emitted and the actor, state Configured and stored config included,
\* is unchanged; a capture is attempted only in state Streaming, which only
\* a start the driver accepted enters.
C16_StartRejected ==
    [][/\ (/\ HandlerStep("StartStreaming")
           /\ actor.state = "Configured"
           /\ driver_calls' = <<Call("start", FALSE)>>)
          => /\ pending' = <<Error(IoError("Failed to configure camera"))>>
             /\ actor' = actor
             /\ actor'.state = "Configured"
       /\ CaptureAttempt => actor.state = "Streaming"
       /\ (actor.state # "Streaming" /\ actor'.state = "Streaming")
          => driver_calls' = <<Call("start", TRUE)>>]_vars

\* The rejected start is being answered; the actor is still Configured.
C16_Witness ==
    /\ pc = "publish"
    /\ pending = <<Error(IoError("Failed to configure camera"))>>
    /\ driver_calls = <<Call("start", FALSE)>>
    /\ actor.state = "Configured"
    /\ IsSome(actor.config)
    /\ ~actor.camera.armed

\* C17: a driver error from the forced stop does not prevent completion:
\* when SetInterface is processed while Streaming and the stop call fails,
\* the open of the new device is still made and, when it succeeds, the
\* handle is replaced and the state is Idle; when Shutdown is processed
\* while Streaming and the stop call fails, ShutdownComplete is still
\* emitted and the loop ends.
C17_ForcedStopBestEffort ==
    [][/\ (/\ HandlerStep("SetInterface")
           /\ actor.state = "Streaming"
           /\ driver_calls' # <<>>
           /\ driver_calls'[1] = Call("stop", FALSE))
          => /\ Len(driver_calls') = 2
             /\ driver_calls'[2].op = "open"
             /\ driver_calls'[2].ok
                => /\ actor'.camera = Camera(Head(command_channel).path)
                   /\ actor'.state = "Idle"
       /\ (/\ HandlerStep("Shutdown")
           /\ actor.state = "Streaming"
           /\ driver_calls' = <<Call("stop", FALSE)>>)
          => /\ pending' = <<ShutdownComplete>>
             /\ pc' = "publish_exit"
       /\ (pc = "publish_exit" /\ pc' # pc) => pc' = "done"]_vars

\* C18: when the command channel is closed (the sender dropped) and holds no
\* command, the poll acts as a Shutdown command would: the driver is stopped
\* if Streaming, ShutdownComplete is emitted and the loop ends.
C18_ClosedChannelIsShutdown ==
    [][(/\ pc = "poll"
        /\ command_channel = <<>>
        /\ handle = "dropped"
        /\ pc' # pc)
       => /\ actor.state = "Streaming" => driver_calls' # <<>> /\ driver_calls'[1].op = "stop"
          /\ pending' = <<ShutdownComplete>>
          /\ pc' = "publish_exit"]_vars

\* C19: an interface change whose open of the new device fails leaves the
\* actor consistent with the handle it holds: if the handle was armed
\* exactly when the state was Streaming before, it is so afterwards.
C19_FailedOpenKeepsConsistency ==
    [][(/\ HandlerStep("SetInterface")
        /\ driver_calls' # <<>>
        /\ driver_calls'[Len(driver_calls')] = Call("open", FALSE)
        /\ actor.camera.armed <=> actor.state = "Streaming")
       => /\ actor'.camera.path = actor.camera.path
          /\ actor'.camera.armed <=> actor'.state = "Streaming"]_vars

\* C20: each loop iteration polls the command channel once without
\* blocking, runs at most one command and publishes its event, and only
\* then, if the state is Streaming, makes exactly one capture call; a
\* command waiting at the poll is dequeued by that poll, commands are
\* dequeued nowhere else, and after the capture the loop is back at the poll.
C20_LoopIteration ==
    /\ [][/\ (pc = "poll" /\ command_channel # <<>> /\ pc' # pc)
             => /\ command_channel' = Tail(command_channel)
                /\ Len(pending') = 1
                /\ pc' \in {"publish", "publish_exit"}
          /\ (pc = "poll" /\ command_channel = <<>> /\ pc' # pc)
             => /\ command_channel' = command_channel
                /\ pending' = <<>>
                /\ actor.state = "Streaming"
                /\ pc' = "capture"
          /\ (pc # "poll" /\ pc' # "done")
             => Len(command_channel') >= Len(command_channel)
          /\ (pc = "publish" /\ pc' # pc)
             => /\ pending' = <<>>
                /\ event_channel' = Append(event_channel, Head(pending))
                /\ pc' = IF actor.state = "Streaming" THEN "capture" ELSE "poll"
          /\ (pc = "capture" /\ pc' # pc)
             => /\ actor.state = "Streaming" => Len(driver_calls') = 1 /\ CaptureAttempt
                /\ actor.state # "Streaming" => driver_calls' = <<>>
                /\ pc' \in {"poll", "publish_frame"}
                /\ pc' = "publish_frame" <=> driver_calls' = <<Call("capture", TRUE)>>
          /\ (pc = "publish_frame" /\ pc' # pc)
             => /\ pc' = "poll"
                /\ event_channel' = Append(event_channel, Head(pending))
          /\ (/\ driver_calls' # driver_calls
              /\ \E i \in 1..Len(driver_calls') : driver_calls'[i].op = "capture")
             => pc = "capture"]_vars
    /\ [](pc = "poll" => ENABLED ActorStep)

\* While Streaming a command waits at the poll, one capture after the last poll.
C20_Witness ==
    /\ pc = "poll"
    /\ command_channel # <<>>
    /\ actor.state = "Streaming"
    /\ actor.camera.armed
    /\ driver_calls = <<Call("capture", FALSE)>>

\* C22: in every reachable state, if the state is Configured or Streaming
\* then a stored config is present, so the unwrap of the config in
\* get_configuration and start_streaming always finds a value.
C22_ConfigPresentWhenNeeded ==
    actor.state \in {"Configured", "Streaming"} => IsSome(actor.config)

\* get_configuration unwrapped the config while Streaming, after an
\* interface change.
C22_Witness ==
    /\ pc = "publish"
    /\ actor.state = "Streaming"
    /\ actor.name = "/dev/video1"
    /\ IsSome(actor.config)
    /\ pending = <<ConfigurationRetrieved(Unwrap(actor.config))>>

\* The event that answers the n-th numbered command.
IsAnswer(event, n) ==
    IF n = 0
    THEN event.type = "CapabilitiesDiscovered"
    ELSE event = Error(UnsupportedResolution(n, 1, "MJPG"))

\* C21: the commands accepted by send_command are processed one at a time
\* in submission order, none lost and none twice while the actor is alive,
\* and their response events are on the event channel in the order of the
\* commands; the command channel never holds more than 10 commands and the
\* event channel never more than 100 events.
C21_InOrderWithinCapacity ==
    LET events == event_channel \o pending
        waiting == Len(command_channel)
    IN  /\ Len(command_channel) <= 10
        /\ Len(event_channel) <= 100
        /\ Len(pending) <= 1
        /\ \A i \in 1..Len(events) :
              \/ IsAnswer(events[i], i - 1)
              \/ /\ i = Len(events)
                 /\ handle # "held"
                 /\ events[i] = ShutdownComplete
        /\ \A j \in 1..waiting :
              \/ command_channel[j] = NumberedCommand(Len(events) + j - 1)
              \/ /\ j = waiting
                 /\ handle = "joining"
                 /\ command_channel[j] = Shutdown

\* Both channels are full: ten commands wait, a hundred events are
\* undrained, and the answer to the command just received waits for room.
C21_Witness ==
    /\ Len(command_channel) = 10
    /\ Len(event_channel) = 100
    /\ pc = "publish"
    /\ pending = <<Error(UnsupportedResolution(100, 1, "MJPG"))>>
    /\ handle = "held"

\* C23: there is no reachable state in which the client is blocked in
\* shutdown (waiting on the join, or in its send on a full command channel)
\* or in send_command while the actor is blocked publishing an event on a
\* full event channel, so that shutdown always returns.
C23_ShutdownReturns ==
    ~ /\ pc \in {"publish", "publish_exit", "publish_frame"}
      /\ pending # <<>>
      /\ Len(event_channel) >= EventCapacity
      /\ \/ handle = "joining"
         \/ handle = "held" /\ Len(command_channel) >= CommandCapacity

====
